---- MODULE Spec2Model ----
(***************************************************************************)
(* Danish VAT return script (flexchar/bun-scripts). Spec is the newer      *)
(* variant of the script, SpecOld the older one.                           *)
(*                                                                         *)
(* The script reads a batch of invoice rows, keeps the rows dated inside   *)
(* [FROM_DATE, TO_DATE], validates and classifies each of them, fills the  *)
(* `tax` object statement by statement, rounds every box and prints it.    *)
(*                                                                         *)
(* Numbers. Amounts are JavaScript doubles. The model keeps them as        *)
(* integers counting eighths of a currency unit (Unit = 8); every input    *)
(* amount is a multiple of one half, so `x * 0.25`, the sums and the       *)
(* rounding are exact both in the doubles and in the model. vatRate is     *)
(* kept in hundredths (0.25 is 25); the code only compares it.             *)
(* Dates are day numbers; the code only compares them.                     *)
(* Strings are sequences of one-character strings.                         *)
(***************************************************************************)
EXTENDS Integers, Sequences, FiniteSets

\* ------------------------------------------------------------------ bounds
MaxRecords == 2

\* ------------------------------------------------------- representation
Unit == 8
FROM_DATE == 1
TO_DATE == 2

\* ------------------------------------------------------------ vat numbers
\* A cell of the vatNumber column after csv-parse's cast: a string, a number
\* (an all-digit cell is cast to a number), or absent.
Str(s) == [kind |-> "string", chars |-> s]
NoVat == [kind |-> "undefined", chars |-> <<>>]
NumericVat == [kind |-> "number", chars |-> <<>>]
EmptyVat == Str(<<>>)
DeVat == Str(<<"D", "E", "1">>)
DkRawVat == Str(<<"d", "k", "-", " ", "1">>)

\* String.prototype.toUpperCase on the model's alphabet
ToUpperChar(c) ==
    CASE c = "d" -> "D"
      [] c = "k" -> "K"
      [] c = "e" -> "E"
      [] OTHER -> c

\* /\s|-/ : a whitespace character or a hyphen
IsSpaceOrHyphen(c) == c \in {" ", "-"}

\* the normalisation without the upper-casing
Normalize_KeepCase(s) == SelectSeq(s, LAMBDA c : ~IsSpaceOrHyphen(c))

\* rawVat.replace(/\s|-/g, '').toUpperCase()
Normalize(s) ==
    LET kept == SelectSeq(s, LAMBDA c : ~IsSpaceOrHyphen(c))
    IN  [k \in 1..Len(kept) |-> ToUpperChar(kept[k])]

\* normalizedVat.startsWith('DK')
StartsWithDK(s) == Len(s) >= 2 /\ s[1] = "D" /\ s[2] = "K"

\* ---------------------------------------------------------------- records
Types == {"A - Services", "A - Goods", "B - Services"}

Row(d, t, v, rate, amt) ==
    [date |-> d, type |-> t, vatNumber |-> v, vatRate |-> rate,
     grandTotal |-> amt.grandTotal, baseValue |-> amt.baseValue,
     vatValue |-> amt.vatValue]

\* amounts, in eighths: 16 = 2.00, 20 = 2.50, 4 = 0.50
PurchaseZero == [grandTotal |-> 16, baseValue |-> 16, vatValue |-> 8]
PurchaseVat == [grandTotal |-> 20, baseValue |-> 16, vatValue |-> 4]
SaleZero == [grandTotal |-> -20, baseValue |-> -20, vatValue |-> 0]
SaleVat == [grandTotal |-> -20, baseValue |-> -16, vatValue |-> -4]
ZeroBase == [grandTotal |-> 0, baseValue |-> 0, vatValue |-> 0]

IsSaleType(t) == t = "B - Services"
DateFor(t) == IF IsSaleType(t) THEN TO_DATE ELSE FROM_DATE
AmountsFor(t, rate) ==
    IF IsSaleType(t)
    THEN (IF rate = 0 THEN SaleZero ELSE SaleVat)
    ELSE (IF rate = 0 THEN PurchaseZero ELSE PurchaseVat)

\* rows with well-signed amounts and a rate of 0 or 0.25 (a DK row has 0.25)
PlainRows ==
    { Row(DateFor(t), t, v, rate, AmountsFor(t, rate)) :
        t \in Types, v \in {EmptyVat, DeVat}, rate \in {0, 25} }
    \cup { Row(DateFor(t), t, DkRawVat, 25, AmountsFor(t, 25)) : t \in Types }

\* rows with a rate outside [0, 1]
OddRateRows ==
    { Row(FROM_DATE, "A - Goods", DeVat, -50, PurchaseVat),
      Row(TO_DATE, "B - Services", NoVat, -50, SaleVat),
      Row(FROM_DATE, "A - Services", DkRawVat, -50, PurchaseVat),
      Row(FROM_DATE, "A - Goods", DeVat, 150, PurchaseVat),
      Row(TO_DATE, "B - Services", DkRawVat, 150, ZeroBase) }

\* DK rows with a rate other than 0.25, rows with a zero or wrongly signed
\* base value, and a row whose vatNumber cell is not a string
BadRows ==
    { Row(FROM_DATE, "A - Services", DkRawVat, 0, PurchaseZero),
      Row(TO_DATE, "B - Services", DkRawVat, 0, ZeroBase),
      Row(FROM_DATE, "A - Goods", DeVat, 25, ZeroBase),
      Row(FROM_DATE, "A - Services", EmptyVat, 0, SaleZero),
      Row(TO_DATE, "B - Services", DeVat, 0, ZeroBase),
      Row(TO_DATE, "B - Services", EmptyVat, 25, PurchaseVat),
      Row(FROM_DATE, "A - Goods", NumericVat, 25, PurchaseVat) }

\* rows dated before FROM_DATE or after TO_DATE
OutOfPeriodRows ==
    { Row(FROM_DATE - 1, "A - Goods", DeVat, 0, PurchaseZero),
      Row(FROM_DATE - 1, "B - Services", DkRawVat, 150, ZeroBase),
      Row(TO_DATE + 1, "B - Services", DeVat, 0, SaleZero),
      Row(TO_DATE + 1, "A - Services", DeVat, 25, SaleVat) }

Rows == PlainRows \cup OddRateRows \cup BadRows \cup OutOfPeriodRows

\* the batches: up to MaxRecords rows, the invoice id of a row is its line
Stamp(rows) ==
    [k \in 1..Len(rows) |->
        [invoiceId |-> k, date |-> rows[k].date, type |-> rows[k].type,
         vatNumber |-> rows[k].vatNumber, vatRate |-> rows[k].vatRate,
         grandTotal |-> rows[k].grandTotal, baseValue |-> rows[k].baseValue,
         vatValue |-> rows[k].vatValue]]

Batches ==
    UNION { { Stamp(rows) : rows \in [1..n -> Rows] } : n \in 0..MaxRecords }

\* ------------------------------------------------------------------ state
VARIABLES
    initialRecords,   \* the parsed rows
    pc,               \* the statement the script is at
    idx,              \* position of the map callback in periodRecords
    periodRecords,    \* result of the date filter
    filteredRecords,  \* validated, classified records
    tax,              \* the tax object
    err,              \* the error reported before process.exit(1)
    notice,           \* the EU-sales reminder was printed
    out,              \* what console.log(tax) printed
    vatOf25estimatedForReverseCharge
                      \* the running total of the older variant of the
                      \* script, which the newer variant keeps in tax

vars == <<initialRecords, pc, idx, periodRecords, filteredRecords, tax, err,
          notice, out, vatOf25estimatedForReverseCharge>>

Boxes ==
    { "vat-in-dk", "manual-25-reverse-charge",
      "vat-on-goods-purchased-outside-denmark",
      "vat-on-services-purchased-outside-denmark-subject-to-a-reverse-charge",
      "vat-on-services-purchased-outside-denmark-outside-eu",
      "vat-on-services-purchased-outside-denmark-inside-eu",
      "eu-sales-with-vat", "eu-sales-without-vat",
      "vat-paid", "vat-collected",
      "box-a-services", "box-a-goods",
      "box-b-services", "box-b-goods", "box-c-services" }

ZeroTax == [b \in Boxes |-> 0]

NoError == [rule |-> 0, invoiceId |-> 0, value |-> 0]

Init ==
    /\ initialRecords \in Batches
    /\ pc = "filter"
    /\ idx = 1
    /\ periodRecords = <<>>
    /\ filteredRecords = <<>>
    /\ tax = ZeroTax
    /\ err = NoError
    /\ notice = FALSE
    /\ out = <<>>
    /\ vatOf25estimatedForReverseCharge = 0

\* --------------------------------------------------------- the date filter
\* the filter without its upper bound
InPeriod_NoUpperBound(r) == r.date >= FROM_DATE

InPeriod(r) == r.date >= FROM_DATE /\ r.date <= TO_DATE

FilterPeriod ==
    /\ pc = "filter"
    /\ periodRecords' = SelectSeq(initialRecords, InPeriod)
    /\ pc' = "map"
    /\ UNCHANGED <<initialRecords, idx, filteredRecords, tax, err, notice, out>>
    /\ UNCHANGED vatOf25estimatedForReverseCharge

\* ------------------------------------------------- the map callback (67-131)
\* recSchema.parse: the modelled rows are typed except for the vatNumber
\* cell, which z.string().optional() accepts when a string or absent
SchemaOk(r) == r.vatNumber.kind \in {"string", "undefined"}

\* (p.vatNumber ?? '').toString()
RawVat(r) == IF r.vatNumber.kind = "string" THEN r.vatNumber.chars ELSE <<>>

IsDk(r) == StartsWithDK(Normalize(RawVat(r)))
HasVat(r) == Len(Normalize(RawVat(r))) > 0

Failure(rule, r, v) == [rule |-> rule, invoiceId |-> r.invoiceId, value |-> v]

\* p.type.startsWith(c), on the three values of the schema's enum
TypeStartsWith(t, c) ==
    CASE t = "A - Services" -> c = "A"
      [] t = "A - Goods" -> c = "A"
      [] t = "B - Services" -> c = "B"

RateAboveOne(r) == r.vatRate > 100
DkRateMismatch(r) == IsDk(r) /\ r.vatRate # 25
SaleBaseNotNegative_ZeroAllowed(r) ==
    TypeStartsWith(r.type, "B") /\ r.baseValue > 0

SaleBaseNotNegative(r) == TypeStartsWith(r.type, "B") /\ r.baseValue >= 0
PurchaseBaseNotPositive(r) == TypeStartsWith(r.type, "A") /\ r.baseValue <= 0

\* the error the callback throws for r, NoError when it returns a record;
\* rule 5 is the schema error, rules 1..4 are the throws in source order
Validate(r) ==
    IF ~SchemaOk(r) THEN Failure(5, r, 0)
    ELSE IF RateAboveOne(r) THEN Failure(1, r, r.vatRate)
    ELSE IF DkRateMismatch(r) THEN Failure(2, r, r.vatRate)
    ELSE IF SaleBaseNotNegative(r) THEN Failure(3, r, r.baseValue)
    ELSE IF PurchaseBaseNotPositive(r) THEN Failure(4, r, r.baseValue)
    ELSE NoError

\* { ...p, inEu: hasVat, inDk: isDk }
Classify(r) ==
    [invoiceId |-> r.invoiceId, date |-> r.date, type |-> r.type,
     vatNumber |-> RawVat(r), vatRate |-> r.vatRate,
     grandTotal |-> r.grandTotal, baseValue |-> r.baseValue,
     vatValue |-> r.vatValue, inEu |-> HasVat(r), inDk |-> IsDk(r)]

\* one call of the map callback; a throw is caught, reported and the
\* process exits with status 1
MapRecord ==
    /\ pc = "map"
    /\ idx <= Len(periodRecords)
    /\ LET r == periodRecords[idx]
           e == Validate(r)
       IN  IF e # NoError
           THEN /\ err' = e
                /\ pc' = "exit"
                /\ UNCHANGED <<idx, filteredRecords>>
           ELSE /\ filteredRecords' = Append(filteredRecords, Classify(r))
                /\ idx' = idx + 1
                /\ UNCHANGED <<err, pc>>
    /\ UNCHANGED <<initialRecords, periodRecords, tax, notice, out>>
    /\ UNCHANGED vatOf25estimatedForReverseCharge

\* the map is over; console.info reports the number of entries
MapDone ==
    /\ pc = "map"
    /\ idx > Len(periodRecords)
    /\ pc' = "vat-in-dk"
    /\ UNCHANGED <<initialRecords, idx, periodRecords, filteredRecords, tax,
                   err, notice, out>>
    /\ UNCHANGED vatOf25estimatedForReverseCharge

\* ------------------------------------------------ the aggregation (146-303)
GOODS == "vat-on-goods-purchased-outside-denmark"
INSIDE_EU == "vat-on-services-purchased-outside-denmark-inside-eu"
OUTSIDE_EU == "vat-on-services-purchased-outside-denmark-outside-eu"
REVERSE_CHARGE ==
    "vat-on-services-purchased-outside-denmark-subject-to-a-reverse-charge"
MANUAL == "manual-25-reverse-charge"

\* x * 0.25 (exact: the amounts are multiples of one half, 4 eighths)
TimesQuarter(x) == (x * 25) \div 100

\* .reduce((acc, r) => acc + r.vatValue, 0)
RECURSIVE SumVatValue(_)
SumVatValue(s) ==
    IF s = <<>> THEN 0
    ELSE SumVatValue(SubSeq(s, 1, Len(s) - 1)) + s[Len(s)].vatValue

\* .reduce((acc, r) => acc + r.grandTotal, 0)
RECURSIVE SumGrandTotal(_)
SumGrandTotal(s) ==
    IF s = <<>> THEN 0
    ELSE SumGrandTotal(SubSeq(s, 1, Len(s) - 1)) + s[Len(s)].grandTotal

\* .reduce((acc, r) => acc + r.baseValue, 0)
RECURSIVE SumBaseValue(_)
SumBaseValue(s) ==
    IF s = <<>> THEN 0
    ELSE SumBaseValue(SubSeq(s, 1, Len(s) - 1)) + s[Len(s)].baseValue

\* the reducer of the three foreign-purchase VAT boxes: st.acc is the
\* accumulator, st.manual is tax['manual-25-reverse-charge']
ReverseChargeReducer_StatedVat(st, r) ==
    [acc |-> st.acc + r.vatValue,
     manual |-> IF r.vatRate = 0 THEN st.manual + r.vatValue ELSE st.manual]

\* the reducer assigning the running total instead of adding to it
ReverseChargeReducer_ManualOverwritten(st, r) ==
    LET value == IF r.vatRate = 0 THEN TimesQuarter(r.grandTotal)
                 ELSE r.vatValue
    IN  [acc |-> st.acc + value,
         manual |-> IF r.vatRate = 0 THEN value ELSE st.manual]

ReverseChargeReducer(st, r) ==
    LET value == IF r.vatRate = 0 THEN TimesQuarter(r.grandTotal)
                 ELSE r.vatValue
    IN  [acc |-> st.acc + value,
         manual |-> IF r.vatRate = 0 THEN st.manual + value ELSE st.manual]

RECURSIVE ReduceReverseCharge(_, _)
ReduceReverseCharge(s, manual0) ==
    IF s = <<>> THEN [acc |-> 0, manual |-> manual0]
    ELSE ReverseChargeReducer(
             ReduceReverseCharge(SubSeq(s, 1, Len(s) - 1), manual0),
             s[Len(s)])

IsPurchase(r) == r.type = "A - Services" \/ r.type = "A - Goods"

VatInDkFilter(r) == r.inDk /\ IsPurchase(r)
GoodsOutsideDkFilter(r) == ~r.inDk /\ r.type = "A - Goods"
\* the inside-EU filter without its vatRate === 0 test
ServicesInsideEuFilter_AnyRate(r) ==
    (~r.inDk /\ r.inEu) /\ r.type = "A - Services"

ServicesInsideEuFilter(r) ==
    (~r.inDk /\ r.inEu) /\ r.type = "A - Services" /\ r.vatRate = 0
ServicesOutsideEuFilter(r) == (~r.inDk /\ ~r.inEu) /\ r.type = "A - Services"
BoxAGoodsFilter(r) == (r.inEu /\ ~r.inDk) /\ r.type = "A - Goods"
BoxAServicesFilter(r) == (r.inEu /\ ~r.inDk) /\ r.type = "A - Services"
BoxBServicesFilter(r) == (r.inEu /\ ~r.inDk) /\ r.type = "B - Services"
BoxCServicesFilter(r) == r.vatRate = 0 /\ r.type = "B - Services"
EuSalesWithVatFilter(r) ==
    (r.inEu /\ ~r.inDk) /\ r.type = "B - Services" /\ r.vatRate > 0
EuSalesWithoutVatFilter(r) ==
    (r.inEu /\ ~r.inDk) /\ r.type = "B - Services" /\ r.vatRate = 0

\* Math.abs
MathAbs(x) == IF x < 0 THEN -x ELSE x

\* a foreign-purchase VAT box assigned the reduction of the selected
\* records sel, tax['manual-25-reverse-charge'] growing on the way
ReverseChargeBox(t, sel, box) ==
    LET res == ReduceReverseCharge(sel, t[MANUAL])
    IN  [t EXCEPT ![MANUAL] = res.manual, ![box] = res.acc]

\* the statements of lines 178-303, each as tax after it, given tax before
\* it and filteredRecords
VatInDk(t, recs) ==
    [t EXCEPT !["vat-in-dk"] = SumVatValue(SelectSeq(recs, VatInDkFilter))]

GoodsOutsideDk(t, recs) == 
    ReverseChargeBox(t, SelectSeq(recs, GoodsOutsideDkFilter), GOODS)

ServicesInsideEu(t, recs) ==
    ReverseChargeBox(t, SelectSeq(recs, ServicesInsideEuFilter), INSIDE_EU)

ServicesOutsideEu(t, recs) ==
    ReverseChargeBox(t, SelectSeq(recs, ServicesOutsideEuFilter), OUTSIDE_EU)

ReverseCharge(t) == [t EXCEPT ![REVERSE_CHARGE] = t[INSIDE_EU] + t[OUTSIDE_EU]]

\* the older variant's sum, which adds the outside-EU box once more
VatPaid_OutsideEuAgain(t) ==
    [t EXCEPT !["vat-paid"] =
        t["vat-in-dk"] + t[GOODS] + t[REVERSE_CHARGE] + t[OUTSIDE_EU]]

VatPaid(t) ==
    [t EXCEPT !["vat-paid"] = t["vat-in-dk"] + t[GOODS] + t[REVERSE_CHARGE]]

BoxAGoods(t, recs) ==
    [t EXCEPT !["box-a-goods"] =
        SumGrandTotal(SelectSeq(recs, BoxAGoodsFilter))]

BoxAServices(t, recs) ==
    [t EXCEPT !["box-a-services"] =
        SumGrandTotal(SelectSeq(recs, BoxAServicesFilter))]

BoxBServices(t, recs) ==
    [t EXCEPT !["box-b-services"] =
        SumGrandTotal(SelectSeq(recs, BoxBServicesFilter))]

BoxCServices(t, recs) ==
    [t EXCEPT !["box-c-services"] =
        SumBaseValue(SelectSeq(recs, BoxCServicesFilter))]

\* the sign of box-c-services left as summed
BoxCServicesAbs_Skipped(t) == t

BoxCServicesAbs(t) ==
    [t EXCEPT !["box-c-services"] = MathAbs(t["box-c-services"])]

EuSalesWithVat(t, recs) ==
    [t EXCEPT !["eu-sales-with-vat"] =
        SumGrandTotal(SelectSeq(recs, EuSalesWithVatFilter))]

EuSalesWithoutVat(t, recs) ==
    [t EXCEPT !["eu-sales-without-vat"] =
        SumBaseValue(SelectSeq(recs, EuSalesWithoutVatFilter))]

\* a statement that assigns tax and falls through to the next statement
Assign(at, next, newTax) ==
    /\ pc = at
    /\ tax' = newTax
    /\ pc' = next
    /\ UNCHANGED <<initialRecords, idx, periodRecords, filteredRecords, err,
                   notice, out>>
    /\ UNCHANGED vatOf25estimatedForReverseCharge

SetVatInDk == Assign("vat-in-dk", "goods", VatInDk(tax, filteredRecords))

SetGoodsOutsideDk ==
    Assign("goods", "inside-eu", GoodsOutsideDk(tax, filteredRecords))

SetServicesInsideEu ==
    Assign("inside-eu", "outside-eu", ServicesInsideEu(tax, filteredRecords))

SetServicesOutsideEu ==
    Assign("outside-eu", "reverse-charge",
           ServicesOutsideEu(tax, filteredRecords))

SetReverseCharge == Assign("reverse-charge", "vat-paid", ReverseCharge(tax))

SetVatPaid == Assign("vat-paid", "box-a-goods", VatPaid(tax))

SetBoxAGoods ==
    Assign("box-a-goods", "box-a-services", BoxAGoods(tax, filteredRecords))

SetBoxAServices ==
    Assign("box-a-services", "box-b-services",
           BoxAServices(tax, filteredRecords))

SetBoxBServices ==
    Assign("box-b-services", "box-c-services",
           BoxBServices(tax, filteredRecords))

SetBoxCServices ==
    Assign("box-c-services", "box-c-abs", BoxCServices(tax, filteredRecords))

AbsBoxCServices ==
    Assign("box-c-abs", "eu-sales-with-vat", BoxCServicesAbs(tax))

SetEuSalesWithVat ==
    Assign("eu-sales-with-vat", "eu-sales-without-vat",
           EuSalesWithVat(tax, filteredRecords))

SetEuSalesWithoutVat ==
    Assign("eu-sales-without-vat", "notice",
           EuSalesWithoutVat(tax, filteredRecords))

\* tax['eu-sales-without-vat'] && console.log(...)
PrintNotice ==
    /\ pc = "notice"
    /\ notice' = (tax["eu-sales-without-vat"] # 0)
    /\ pc' = "round"
    /\ UNCHANGED <<initialRecords, idx, periodRecords, filteredRecords, tax,
                   err, out>>
    /\ UNCHANGED vatOf25estimatedForReverseCharge

\* ------------------------------------------------- rounding and output
\* Math.round replaced by a rounding with halves away from zero
MathRound_HalfAwayFromZero(x) ==
    IF x >= 0 THEN ((x + Unit \div 2) \div Unit) * Unit
    ELSE -(((-x + Unit \div 2) \div Unit) * Unit)

\* Math.round replaced by Math.floor
MathRound_Floor(x) == (x \div Unit) * Unit

\* Math.round: the integer nearest to x, a half going to the larger integer
MathRound(x) == ((x + Unit \div 2) \div Unit) * Unit

\* Object.keys(tax).forEach((key) => tax[key] = Math.round(tax[key]))
Rounded(t) == [b \in Boxes |-> MathRound(t[b])]

RoundAll == Assign("round", "print", Rounded(tax))

\* console.log(tax); the two labelled objects repeat values of tax
PrintTax ==
    /\ pc = "print"
    /\ out' = Append(out, tax)
    /\ pc' = "done"
    /\ UNCHANGED <<initialRecords, idx, periodRecords, filteredRecords, tax,
                   err, notice>>
    /\ UNCHANGED vatOf25estimatedForReverseCharge

Aggregate ==
    \/ SetVatInDk
    \/ SetGoodsOutsideDk
    \/ SetServicesInsideEu
    \/ SetServicesOutsideEu
    \/ SetReverseCharge
    \/ SetVatPaid
    \/ SetBoxAGoods
    \/ SetBoxAServices
    \/ SetBoxBServices
    \/ SetBoxCServices
    \/ AbsBoxCServices
    \/ SetEuSalesWithVat
    \/ SetEuSalesWithoutVat

Next ==
    \/ FilterPeriod
    \/ MapRecord
    \/ MapDone
    \/ Aggregate
    \/ PrintNotice
    \/ RoundAll
    \/ PrintTax

Spec == Init /\ [][Next]_vars

\* ------------------------------------------------ the run as a function
\* what a run on batch reports and prints: the filter, the map up to its
\* first throw, the statements in source order, the rounding, the print
Run(batch) ==
    LET per == SelectSeq(batch, InPeriod)
        bad == { k \in 1..Len(per) : Validate(per[k]) # NoError }
        first == CHOOSE k \in bad : \A j \in bad : k <= j
        recs == [k \in 1..Len(per) |-> Classify(per[k])]
        t1 == VatInDk(ZeroTax, recs)
        t2 == GoodsOutsideDk(t1, recs)
        t3 == ServicesInsideEu(t2, recs)
        t4 == ServicesOutsideEu(t3, recs)
        t5 == VatPaid(ReverseCharge(t4))
        t6 == BoxAGoods(t5, recs)
        t7 == BoxAServices(t6, recs)
        t8 == BoxBServices(t7, recs)
        t9 == BoxCServicesAbs(BoxCServices(t8, recs))
        t10 == EuSalesWithVat(t9, recs)
        t11 == EuSalesWithoutVat(t10, recs)
    IN  IF bad # {}
        THEN [err |-> Validate(per[first]), out |-> <<>>]
        ELSE [err |-> NoError, out |-> <<Rounded(t11)>>]

\* ------------------------------------------------------------- vocabulary
StatementOrder ==
    << "filter", "map", "vat-in-dk", "goods", "inside-eu", "outside-eu",
       "reverse-charge", "vat-paid", "box-a-goods", "box-a-services",
       "box-b-services", "box-c-services", "box-c-abs", "eu-sales-with-vat",
       "eu-sales-without-vat", "notice", "round", "print", "done" >>

PosOf(p) == CHOOSE k \in 1..Len(StatementOrder) : StatementOrder[k] = p

\* the statement named s has run and the rounding has not
UnroundedAfter(s) ==
    /\ pc # "exit"
    /\ PosOf(pc) > PosOf(s)
    /\ PosOf(pc) <= PosOf("round")

\* validation accepted the whole batch
ReachedAggregation == pc \notin {"filter", "map", "exit"}

CompositeLaw(t) ==
    /\ t["vat-paid"] = t["vat-in-dk"] + t[GOODS] + t[REVERSE_CHARGE]
    /\ t[REVERSE_CHARGE] = t[INSIDE_EU] + t[OUTSIDE_EU]

\* s without its k-th element
RemoveAt(s, k) == SubSeq(s, 1, k - 1) \o SubSeq(s, k + 1, Len(s))

\* ------------------------------------------------------------------ C1
\* C1 as stated: the printed (rounded) boxes satisfy both composite
\* equalities.
C1_RoundedCompositeLaw == out # <<>> => CompositeLaw(out[1])

\* C1, amended: for every validated batch the boxes satisfy both composite
\* equalities from the vat-paid statement up to the rounding step, that is
\* on the unrounded values.
C1_UnroundedCompositeLaw == UnroundedAfter("vat-paid") => CompositeLaw(tax)

\* two base boxes hold halves: the unrounded law holds where the rounded
\* one is about to fail
C1_Witness ==
    /\ pc = "round"
    /\ tax[GOODS] % Unit # 0
    /\ tax[REVERSE_CHARGE] % Unit # 0
    /\ tax["vat-paid"] % Unit = 0

\* ------------------------------------------------------------------ C2
\* the running total of estimates a record list leaves
ManualOf(recs) ==
    ServicesOutsideEu(ServicesInsideEu(GoodsOutsideDk(ZeroTax, recs), recs),
                      recs)[MANUAL]

\* C2: a non-DK purchase record with vatRate = 0 adds grandTotal * 0.25 to
\* its VAT box (goods; services inside EU; services outside EU), whatever
\* its stated vatValue; with vatRate # 0, when it passes the box's filter,
\* it adds its stated vatValue and adds nothing to the running total of
\* estimates. What a record adds is the box over all records minus the box
\* over the other records.
C2_SelectedVat ==
    UnroundedAfter("outside-eu") =>
        \A k \in 1..Len(filteredRecords) :
            LET r == filteredRecords[k]
                others == RemoveAt(filteredRecords, k)
                goods == tax[GOODS] - GoodsOutsideDk(ZeroTax, others)[GOODS]
                inside ==
                    tax[INSIDE_EU]
                        - ServicesInsideEu(ZeroTax, others)[INSIDE_EU]
                outside ==
                    tax[OUTSIDE_EU]
                        - ServicesOutsideEu(ZeroTax, others)[OUTSIDE_EU]
                manual == tax[MANUAL] - ManualOf(others)
                added == IF r.type = "A - Goods" THEN goods
                         ELSE IF r.inEu THEN inside ELSE outside
                passes == r.type = "A - Goods" \/ ~r.inEu
            IN  (r.type \in {"A - Goods", "A - Services"} /\ ~r.inDk) =>
                    /\ r.vatRate = 0 =>
                          /\ 100 * added = 25 * r.grandTotal
                          /\ 100 * manual = 25 * r.grandTotal
                    /\ (r.vatRate # 0 /\ passes) =>
                          /\ added = r.vatValue
                          /\ manual = 0
                    /\ (r.vatRate # 0 /\ ~passes) => (added = 0 /\ manual = 0)

\* an estimated record whose stated vatValue differs from the estimate, next
\* to a record whose stated vatValue is used
C2_Witness ==
    /\ pc = "round"
    /\ \E j, k \in 1..Len(filteredRecords) :
          /\ filteredRecords[j].type = "A - Goods"
          /\ ~filteredRecords[j].inDk
          /\ filteredRecords[j].vatRate = 0
          /\ 4 * filteredRecords[j].vatValue # filteredRecords[j].grandTotal
          /\ filteredRecords[k].type = "A - Services"
          /\ ~filteredRecords[k].inEu
          /\ filteredRecords[k].vatRate # 0
          /\ tax[OUTSIDE_EU] = filteredRecords[k].vatValue
          /\ 4 * tax[GOODS] = filteredRecords[j].grandTotal

\* --------------------------------------------- the invariants as stated
\* a VAT number whose first two characters, spaces and hyphens skipped,
\* are D and K in either case
LooksDanish(chars) ==
    LET sig == SelectSeq(chars, LAMBDA c : c \notin {" ", "-"})
    IN  Len(sig) >= 2 /\ sig[1] \in {"d", "D"} /\ sig[2] \in {"k", "K"}

CellLooksDanish(cell) == cell.kind = "string" /\ LooksDanish(cell.chars)

InsidePeriod(r) == ~(r.date < FROM_DATE) /\ ~(r.date > TO_DATE)

RateInRange(r) == 0 <= r.vatRate /\ r.vatRate <= 100
SignConvention(r) ==
    /\ r.type = "B - Services" => r.baseValue < 0
    /\ r.type \in {"A - Goods", "A - Services"} => r.baseValue > 0

\* the in-period rows of the batch
RowsInPeriod ==
    { k \in 1..Len(initialRecords) : InsidePeriod(initialRecords[k]) }

\* ------------------------------------------------------------------ C3
\* C3 as stated: every record that reaches aggregation has
\* 0 <= vatRate <= 1, a run with an in-period record outside that range
\* aborts.
C3_VatRateInRange ==
    ReachedAggregation =>
        /\ \A k \in 1..Len(filteredRecords) : RateInRange(filteredRecords[k])
        /\ \A k \in RowsInPeriod : RateInRange(initialRecords[k])

\* ------------------------------------------------------------------ C4
\* C4: every record that reaches aggregation and whose normalized VAT number
\* starts with DK has vatRate 0.25; a run with an in-period DK record of
\* another rate, of any type, reports an error and prints nothing.
C4_DkRate ==
    /\ \A k \in 1..Len(filteredRecords) :
          LooksDanish(filteredRecords[k].vatNumber) =>
              (filteredRecords[k].vatRate = 25 /\ filteredRecords[k].inDk)
    /\ ReachedAggregation =>
          \A k \in RowsInPeriod :
              CellLooksDanish(initialRecords[k].vatNumber) =>
                  initialRecords[k].vatRate = 25
    /\ pc = "exit" => (err # NoError /\ out = <<>> /\ tax = ZeroTax)

\* a DK record was accepted with 0.25, then a DK record with rate 0 written
\* in lower case with a hyphen was rejected
C4_Witness ==
    /\ pc = "exit"
    /\ err.rule = 2
    /\ err.value = 0
    /\ Len(filteredRecords) = 1
    /\ filteredRecords[1].inDk
    /\ filteredRecords[1].vatRate = 25
    /\ periodRecords[2].vatNumber = DkRawVat

\* ------------------------------------------------------------------ C5
\* C5: every record that reaches aggregation has baseValue < 0 when a Sale
\* and baseValue > 0 when a purchase; a run with an in-period record whose
\* baseValue is 0 or has the wrong sign reports an error and prints nothing.
C5_SignConvention ==
    /\ \A k \in 1..Len(filteredRecords) : SignConvention(filteredRecords[k])
    /\ ReachedAggregation =>
          \A k \in RowsInPeriod : SignConvention(initialRecords[k])
    /\ (pc = "exit" /\ err.rule \in {3, 4}) =>
          (~SignConvention(periodRecords[idx]) /\ out = <<>>)

\* a Sale was accepted with a negative base value, then a Sale with base
\* value 0 was rejected
C5_Witness ==
    /\ pc = "exit"
    /\ err.rule = 3
    /\ err.value = 0
    /\ Len(filteredRecords) = 1
    /\ filteredRecords[1].type = "B - Services"
    /\ filteredRecords[1].baseValue < 0

\* the invariants 1..4 a row violates
Violated(r) ==
    {n \in 1..4 :
        \/ n = 1 /\ ~RateInRange(r)
        \/ n = 2 /\ CellLooksDanish(r.vatNumber) /\ r.vatRate # 25
        \/ n = 3 /\ r.type = "B - Services" /\ ~(r.baseValue < 0)
        \/ n = 4 /\ r.type \in {"A - Goods", "A - Services"}
                 /\ ~(r.baseValue > 0)}

\* the value the error of invariant n names
Offending(n, r) == IF n \in {1, 2} THEN r.vatRate ELSE r.baseValue

ViolatingRows == { k \in RowsInPeriod : Violated(initialRecords[k]) # {} }

Least(S) == CHOOSE n \in S : \A m \in S : n <= m

\* ------------------------------------------------------------------ C6
\* C6 as stated: when an in-period record violates one of the four
\* invariants, wherever it sits in the batch, no box is ever computed and
\* nothing is printed, and the run ends in the error state.
C6_NoOutputOnViolation ==
    ViolatingRows # {} =>
        /\ tax = ZeroTax
        /\ out = <<>>
        /\ pc \in {"filter", "map", "exit"}

\* ------------------------------------------------------------------ C7
\* C7 as stated: the error an aborted run reports is that of the first
\* in-period record, in batch order, that violates an invariant; it names
\* the lowest-numbered invariant this record violates, the record's
\* invoiceId and the offending value. (A schema error, rule 5, is the error
\* of a row that is not a typed record, and is left aside.)
C7_FirstViolationReported ==
    (pc = "exit" /\ err.rule # 5) =>
        /\ ViolatingRows # {}
        /\ LET r == initialRecords[Least(ViolatingRows)]
               n == Least(Violated(r))
           IN  err = [rule |-> n, invoiceId |-> r.invoiceId,
                      value |-> Offending(n, r)]

\* ------------------------------------------------------------------ C8
\* C8: the date filter keeps exactly the records dated from fromDate to
\* toDate, both included; a record dated outside contributes to no box, nor
\* to the running total, and raises no error even when it violates
\* invariants: what the run reports and prints is what it reports and
\* prints for the batch without its out-of-period records.
C8_OutOfPeriodNoEffect ==
    /\ pc # "filter" =>
          periodRecords = SelectSeq(initialRecords, InsidePeriod)
    /\ ReachedAggregation =>
          /\ Len(filteredRecords) = Cardinality(RowsInPeriod)
          /\ \A k \in 1..Len(filteredRecords) :
                InsidePeriod(filteredRecords[k])
    /\ pc = "exit" => InsidePeriod(initialRecords[err.invoiceId])
    /\ pc \in {"done", "exit"} =>
          /\ [err |-> err, out |-> out] = Run(initialRecords)
          /\ Run(initialRecords) = Run(SelectSeq(initialRecords, InsidePeriod))

\* the run printed the boxes of a record dated exactly fromDate or toDate
\* while the batch also holds an out-of-period record violating an invariant
C8_Witness ==
    /\ pc = "done"
    /\ \E k \in 1..Len(initialRecords) :
          /\ ~InsidePeriod(initialRecords[k])
          /\ Violated(initialRecords[k]) # {}
    /\ Len(filteredRecords) = 1
    /\ filteredRecords[1].date \in {FROM_DATE, TO_DATE}
    /\ out[1] # ZeroTax

\* ------------------------------------------------------------------ C9
\* C9 as stated: the rounding step gives every box the nearest integer,
\* exact halves going away from zero, also for negative totals.
C9_HalfAwayFromZero ==
    [][pc = "round" =>
          \A b \in Boxes : tax'[b] = MathRound_HalfAwayFromZero(tax[b])]_vars

\* C9, amended: the rounding step gives every box the nearest integer to its
\* unrounded total, an exact half going up (towards plus infinity), so a
\* negative half goes towards zero: -2.5 is output as -2, 2.5 as 3.
C9_HalfUp ==
    [][pc = "round" =>
          \A b \in Boxes :
              /\ tax'[b] % Unit = 0
              /\ 2 * (tax'[b] - tax[b]) <= Unit
              /\ 2 * (tax[b] - tax'[b]) < Unit]_vars

\* box-b-services summed to -2.5 and was rounded to -2; box-c-services held
\* 2.5 and was rounded to 3
C9_Witness ==
    /\ pc = "print"
    /\ 2 * SumGrandTotal(SelectSeq(filteredRecords, BoxBServicesFilter))
          = -5 * Unit
    /\ tax["box-b-services"] = -2 * Unit
    /\ tax["box-c-services"] = 3 * Unit

\* ----------------------------------------------------------------- C10
\* C10 as stated: no step gives a box a value lower than it held.
C10_NeverDecreases == [][\A b \in Boxes : tax'[b] >= tax[b]]_vars

\* the boxes the statement at p assigns by a reduction or a sum of boxes
AssignedAt(p) ==
    CASE p = "vat-in-dk" -> {"vat-in-dk"}
      [] p = "goods" -> {GOODS, MANUAL}
      [] p = "inside-eu" -> {INSIDE_EU, MANUAL}
      [] p = "outside-eu" -> {OUTSIDE_EU, MANUAL}
      [] p = "reverse-charge" -> {REVERSE_CHARGE}
      [] p = "vat-paid" -> {"vat-paid"}
      [] p \in {"box-a-goods", "box-a-services", "box-b-services",
                "box-c-services", "eu-sales-with-vat",
                "eu-sales-without-vat"} -> {p}
      [] OTHER -> {}

\* C10, amended: a box is lowered only by the statement that assigns it, which
\* replaces its initial 0 by a negative total (the sale boxes sum negative
\* amounts; the running total is lowered only by a negative estimate), or by
\* the rounding step, by less than one half; no other step, the Math.abs
\* step of box-c-services included, lowers a box.
C10_LoweredOnlyByOwnStatementOrRounding ==
    [][\A b \in Boxes :
          tax'[b] < tax[b] =>
              \/ pc = "round" /\ 2 * (tax[b] - tax'[b]) < Unit
              \/ /\ b \in AssignedAt(pc)
                 /\ b # MANUAL => (tax[b] = 0 /\ tax'[b] < 0)]_vars

\* the sums of box-b-services and box-c-services lowered both boxes below 0
C10_Witness ==
    /\ pc = "box-c-abs"
    /\ tax["box-b-services"] < 0
    /\ tax["box-c-services"] < 0

\* ----------------------------------------------------------------- C11
\* a purchase from outside Denmark invoiced without VAT
ZeroRatedForeignPurchase(r) ==
    r.type \in {"A - Goods", "A - Services"} /\ ~r.inDk /\ r.vatRate = 0

\* a purchase from outside Denmark whose stated VAT enters a VAT box
StatedVatForeignPurchase(r) ==
    /\ r.type \in {"A - Goods", "A - Services"}
    /\ ~r.inDk
    /\ r.vatRate # 0
    /\ (r.type = "A - Goods" \/ ~r.inEu)

\* C11: after the three foreign-purchase statements and before the rounding,
\* manual-25-reverse-charge is the sum of grandTotal * 0.25 over the non-DK
\* purchase records with vatRate = 0, each counted once; the three
\* foreign-purchase VAT boxes together hold that amount plus the stated VAT
\* of the other records they take; a record outside that class leaves the
\* running total as it is without it.
C11_RunningTotal ==
    UnroundedAfter("outside-eu") =>
        /\ 100 * tax[MANUAL] =
              25 * SumGrandTotal(
                       SelectSeq(filteredRecords, ZeroRatedForeignPurchase))
        /\ tax[GOODS] + tax[INSIDE_EU] + tax[OUTSIDE_EU] =
              tax[MANUAL]
                  + SumVatValue(
                        SelectSeq(filteredRecords, StatedVatForeignPurchase))
        /\ \A k \in 1..Len(filteredRecords) :
              LET r == filteredRecords[k]
                  without == ManualOf(RemoveAt(filteredRecords, k))
              IN  IF ZeroRatedForeignPurchase(r)
                  THEN 100 * (tax[MANUAL] - without) = 25 * r.grandTotal
                  ELSE tax[MANUAL] = without

\* two estimated records, one of goods and one of services, next to none
\* other: the running total holds both estimates
C11_Witness ==
    /\ pc = "round"
    /\ Len(filteredRecords) = 2
    /\ ZeroRatedForeignPurchase(filteredRecords[1])
    /\ ZeroRatedForeignPurchase(filteredRecords[2])
    /\ filteredRecords[1].type # filteredRecords[2].type
    /\ 4 * tax[MANUAL] =
          filteredRecords[1].grandTotal + filteredRecords[2].grandTotal
    /\ tax[MANUAL] > tax[GOODS]

\* ----------------------------------------------------------------- C12
ZeroRatedSale(r) == r.type = "B - Services" /\ r.vatRate = 0

BoxCOf(recs) ==
    BoxCServicesAbs(BoxCServices(ZeroTax, recs))["box-c-services"]
BoxBOf(recs) == BoxBServices(ZeroTax, recs)["box-b-services"]
EuSalesWithoutVatOf(recs) ==
    EuSalesWithoutVat(ZeroTax, recs)["eu-sales-without-vat"]

\* C12: once filled and until the rounding, box-c-services is not negative
\* and is the absolute value of the sum of baseValue over the Sale records
\* with vatRate = 0, with a VAT number or without; a Sale with vatRate # 0
\* adds nothing to it; a non-DK EU Sale with vatRate = 0 adds its grandTotal
\* to box-b-services, its baseValue to eu-sales-without-vat and |baseValue|
\* to box-c-services.
C12_BoxCServices ==
    UnroundedAfter("eu-sales-without-vat") =>
        /\ tax["box-c-services"] >= 0
        /\ LET total ==
                  SumBaseValue(SelectSeq(filteredRecords, ZeroRatedSale))
           IN  tax["box-c-services"] = IF total < 0 THEN -total ELSE total
        /\ \A k \in 1..Len(filteredRecords) :
              LET r == filteredRecords[k]
                  others == RemoveAt(filteredRecords, k)
                  toC == tax["box-c-services"] - BoxCOf(others)
                  toB == tax["box-b-services"] - BoxBOf(others)
                  toEu ==
                      tax["eu-sales-without-vat"] - EuSalesWithoutVatOf(others)
              IN  r.type = "B - Services" =>
                      /\ r.vatRate # 0 => toC = 0
                      /\ r.vatRate = 0 => (toC = -r.baseValue /\ toC > 0)
                      /\ (r.vatRate = 0 /\ r.inEu /\ ~r.inDk) =>
                            (toB = r.grandTotal /\ toEu = r.baseValue)

\* a zero-rated Sale to an EU VAT number and one to a customer without VAT
\* number: both are in box-c-services, the first alone in box-b-services
C12_Witness ==
    /\ pc = "round"
    /\ Len(filteredRecords) = 2
    /\ ZeroRatedSale(filteredRecords[1])
    /\ ZeroRatedSale(filteredRecords[2])
    /\ filteredRecords[1].inEu
    /\ ~filteredRecords[2].inEu
    /\ tax["box-c-services"] =
          -(filteredRecords[1].baseValue + filteredRecords[2].baseValue)
    /\ tax["box-b-services"] = filteredRecords[1].grandTotal
    /\ tax["eu-sales-without-vat"] = filteredRecords[1].baseValue

\* ----------------------------------------------------------------- C14
\* the base VAT boxes, numbered 1..4, whose filter r passes
BaseBoxesOf(r) ==
    {n \in 1..4 :
        \/ n = 1 /\ VatInDkFilter(r)
        \/ n = 2 /\ GoodsOutsideDkFilter(r)
        \/ n = 3 /\ ServicesInsideEuFilter(r)
        \/ n = 4 /\ ServicesOutsideEuFilter(r)}

\* the unrounded vat-paid the newer variant computes over recs
VatPaidOf(recs) ==
    VatPaid(ReverseCharge(
        ServicesOutsideEu(
            ServicesInsideEu(
                GoodsOutsideDk(VatInDk(ZeroTax, recs), recs), recs),
            recs)))["vat-paid"]

BoxAServicesOf(recs) == BoxAServices(ZeroTax, recs)["box-a-services"]

AddsOnce(r) ==
    \/ r.type \in {"A - Goods", "A - Services"} /\ r.inDk
    \/ r.type = "A - Goods" /\ ~r.inDk
    \/ r.type = "A - Services" /\ ~r.inEu

AddsNever(r) ==
    \/ r.type = "B - Services"
    \/ r.type = "A - Services" /\ ~r.inDk /\ r.inEu /\ r.vatRate # 0

OldBoxes ==
    { "vat-in-dk", GOODS, REVERSE_CHARGE, OUTSIDE_EU,
      "eu-sales-with-vat", "eu-sales-without-vat",
      "vat-paid", "vat-collected",
      "box-a-services", "box-a-goods",
      "box-b-services", "box-b-goods", "box-c-services" }

OldZeroTax == [b \in OldBoxes |-> 0]

\* the boxes the object `dansk` repeats
OldDanskBoxes ==
    { GOODS, REVERSE_CHARGE, "vat-paid", "box-a-goods", "box-a-services",
      "box-b-services", "eu-sales-with-vat", "eu-sales-without-vat" }

OldRow(d, t, eu, dk, rate, amt) ==
    [date |-> d, type |-> t, inEu |-> eu, inDk |-> dk, vatRate |-> rate,
     grandTotal |-> amt.grandTotal, baseValue |-> amt.baseValue,
     vatValue |-> amt.vatValue]

OldRows ==
    { OldRow(DateFor(t), t, eu, dk, rate, AmountsFor(t, rate)) :
        t \in Types, eu \in BOOLEAN, dk \in BOOLEAN, rate \in {0, 25} }
    \cup { OldRow(FROM_DATE - 1, "A - Services", FALSE, FALSE, 0, PurchaseZero),
           OldRow(TO_DATE + 1, "A - Goods", TRUE, FALSE, 25, PurchaseVat) }

OldStamp(rows) ==
    [k \in 1..Len(rows) |->
        [invoiceId |-> k, date |-> rows[k].date, type |-> rows[k].type,
         inEu |-> rows[k].inEu, inDk |-> rows[k].inDk,
         vatRate |-> rows[k].vatRate, grandTotal |-> rows[k].grandTotal,
         baseValue |-> rows[k].baseValue, vatValue |-> rows[k].vatValue]]

OldBatches ==
    UNION { { OldStamp(rows) : rows \in [1..n -> OldRows] } :
              n \in 0..MaxRecords }

InitOld ==
    /\ initialRecords \in OldBatches
    /\ pc = "old-filter"
    /\ idx = 1
    /\ periodRecords = <<>>
    /\ filteredRecords = <<>>
    /\ tax = OldZeroTax
    /\ err = NoError
    /\ notice = FALSE
    /\ out = <<>>
    /\ vatOf25estimatedForReverseCharge = 0

OldInPeriod(r) == r.date >= FROM_DATE /\ r.date <= TO_DATE

OldFilterPeriod ==
    /\ pc = "old-filter"
    /\ filteredRecords' = SelectSeq(initialRecords, OldInPeriod)
    /\ pc' = "old-vat-in-dk"
    /\ UNCHANGED <<initialRecords, idx, periodRecords, tax, err, notice, out,
                   vatOf25estimatedForReverseCharge>>

\* a statement that assigns tax, and the running total when it estimates
OldAssign(at, next, newTax, newEstimate) ==
    /\ pc = at
    /\ tax' = newTax
    /\ vatOf25estimatedForReverseCharge' = newEstimate
    /\ pc' = next
    /\ UNCHANGED <<initialRecords, idx, periodRecords, filteredRecords, err,
                   notice, out>>

\* the reduction of the selected records sel, started with the running
\* total
OldReduce(sel) == ReduceReverseCharge(sel, vatOf25estimatedForReverseCharge)

OldSetVatInDk ==
    OldAssign("old-vat-in-dk", "old-goods", VatInDk(tax, filteredRecords),
              vatOf25estimatedForReverseCharge)

OldSetGoodsOutsideDk ==
    LET res == OldReduce(SelectSeq(filteredRecords, GoodsOutsideDkFilter))
    IN  OldAssign("old-goods", "old-reverse-charge",
                  [tax EXCEPT ![GOODS] = res.acc], res.manual)

OldSetReverseCharge ==
    LET res == OldReduce(SelectSeq(filteredRecords, ServicesInsideEuFilter))
    IN  OldAssign("old-reverse-charge", "old-outside-eu",
                  [tax EXCEPT ![REVERSE_CHARGE] = res.acc], res.manual)

OldSetServicesOutsideEu ==
    LET res == OldReduce(SelectSeq(filteredRecords, ServicesOutsideEuFilter))
    IN  OldAssign("old-outside-eu", "old-info",
                  [tax EXCEPT ![OUTSIDE_EU] = res.acc], res.manual)

\* console.info({ vatOf25estimatedForReverseCharge })
OldPrintEstimate ==
    /\ pc = "old-info"
    /\ out' = Append(out, [estimate |-> vatOf25estimatedForReverseCharge])
    /\ pc' = "old-vat-paid"
    /\ UNCHANGED <<initialRecords, idx, periodRecords, filteredRecords, tax,
                   err, notice, vatOf25estimatedForReverseCharge>>

\* the sum without its fourth term
OldVatPaid_WithoutOutsideEu(t) ==
    [t EXCEPT !["vat-paid"] = t["vat-in-dk"] + t[GOODS] + t[REVERSE_CHARGE]]

OldVatPaid(t) ==
    [t EXCEPT !["vat-paid"] =
        t["vat-in-dk"] + t[GOODS] + t[REVERSE_CHARGE] + t[OUTSIDE_EU]]

OldSetVatPaid ==
    OldAssign("old-vat-paid", "old-box-a-goods", OldVatPaid(tax),
              vatOf25estimatedForReverseCharge)

OldSetBoxAGoods ==
    OldAssign("old-box-a-goods", "old-box-a-services",
              BoxAGoods(tax, filteredRecords),
              vatOf25estimatedForReverseCharge)

OldSetBoxAServices ==
    OldAssign("old-box-a-services", "old-box-b-services",
              BoxAServices(tax, filteredRecords),
              vatOf25estimatedForReverseCharge)

OldSetBoxBServices ==
    OldAssign("old-box-b-services", "old-eu-sales-with-vat",
              BoxBServices(tax, filteredRecords),
              vatOf25estimatedForReverseCharge)

OldSetEuSalesWithVat ==
    OldAssign("old-eu-sales-with-vat", "old-eu-sales-without-vat",
              EuSalesWithVat(tax, filteredRecords),
              vatOf25estimatedForReverseCharge)

OldSetEuSalesWithoutVat ==
    OldAssign("old-eu-sales-without-vat", "old-round",
              EuSalesWithoutVat(tax, filteredRecords),
              vatOf25estimatedForReverseCharge)

OldRoundAll ==
    OldAssign("old-round", "old-print",
              [b \in OldBoxes |-> MathRound(tax[b])],
              vatOf25estimatedForReverseCharge)

\* console.dir(dansk)
OldPrintDansk ==
    /\ pc = "old-print"
    /\ out' = Append(out, [b \in OldDanskBoxes |-> tax[b]])
    /\ pc' = "old-done"
    /\ UNCHANGED <<initialRecords, idx, periodRecords, filteredRecords, tax,
                   err, notice, vatOf25estimatedForReverseCharge>>

NextOld ==
    \/ OldFilterPeriod
    \/ OldSetVatInDk
    \/ OldSetGoodsOutsideDk
    \/ OldSetReverseCharge
    \/ OldSetServicesOutsideEu
    \/ OldPrintEstimate
    \/ OldSetVatPaid
    \/ OldSetBoxAGoods
    \/ OldSetBoxAServices
    \/ OldSetBoxBServices
    \/ OldSetEuSalesWithVat
    \/ OldSetEuSalesWithoutVat
    \/ OldRoundAll
    \/ OldPrintDansk

SpecOld == InitOld /\ [][NextOld]_vars

\* ----------------------------------------------------------------- C13
\* tax of the newer variant after its vat-paid statement, over recs
NewTaxOf(recs) ==
    VatPaid(ReverseCharge(
        ServicesOutsideEu(
            ServicesInsideEu(
                GoodsOutsideDk(VatInDk(ZeroTax, recs), recs), recs),
            recs)))

\* the older variant has run its vat-paid statement and has not rounded
OldUnroundedVatPaid ==
    pc \in { "old-box-a-goods", "old-box-a-services", "old-box-b-services",
             "old-eu-sales-with-vat", "old-eu-sales-without-vat",
             "old-round" }

\* the outside-EU services purchases
OutsideEuServices(r) == r.type = "A - Services" /\ ~r.inDk /\ ~r.inEu
NotOutsideEuServices(r) == ~OutsideEuServices(r)

\* C13 as stated: one variant has the VAT of the outside-EU services
\* purchases in vat-paid and the other has not, so on a record set with such
\* VAT the two unrounded vat-paid values differ, by that VAT.
C13_VatPaidDiffers ==
    (OldUnroundedVatPaid /\ tax[OUTSIDE_EU] # 0) =>
        LET diff == tax["vat-paid"] - NewTaxOf(filteredRecords)["vat-paid"]
        IN  diff \in {tax[OUTSIDE_EU], -tax[OUTSIDE_EU]}

\* C13, amended: both variants have the VAT of the outside-EU services
\* purchases in vat-paid, the newer through the reverse-charge composite,
\* the older as a fourth term, and on the same classified record set their
\* unrounded vat-paid values are equal; the variants differ in the
\* reverse-charge box, which holds the inside-EU services in the older and
\* the inside-EU plus the outside-EU services in the newer.
C13_SameVatPaid ==
    OldUnroundedVatPaid =>
        LET new == NewTaxOf(filteredRecords)
            rest == SelectSeq(filteredRecords, NotOutsideEuServices)
            oldRest ==
                tax["vat-in-dk"] + tax[GOODS] + tax[REVERSE_CHARGE]
        IN  /\ tax["vat-paid"] = new["vat-paid"]
            /\ tax[OUTSIDE_EU] = new[OUTSIDE_EU]
            /\ tax["vat-paid"] - oldRest = tax[OUTSIDE_EU]
            /\ new["vat-paid"] - NewTaxOf(rest)["vat-paid"] = new[OUTSIDE_EU]
            /\ oldRest = NewTaxOf(rest)["vat-paid"]
            /\ tax[REVERSE_CHARGE] = new[INSIDE_EU]
            /\ new[REVERSE_CHARGE] = tax[REVERSE_CHARGE] + tax[OUTSIDE_EU]
            /\ vatOf25estimatedForReverseCharge = new[MANUAL]

\* a record set with outside-EU and inside-EU services VAT, on which the
\* reverse-charge boxes of the two variants differ and vat-paid does not
C13_Witness ==
    /\ pc = "old-round"
    /\ tax[OUTSIDE_EU] # 0
    /\ tax[REVERSE_CHARGE] # 0
    /\ tax[REVERSE_CHARGE] # NewTaxOf(filteredRecords)[REVERSE_CHARGE]
    /\ tax["vat-paid"] = tax[REVERSE_CHARGE] + tax[OUTSIDE_EU]
====
